---- MODULE Spec2Model ----
(***************************************************************************)
(* State-machine model of the TLE75008-ESD Arduino driver                  *)
(* (src/TLE75008_ESD.cpp) running against a register-memory device with    *)
(* one frame of response latency.                                          *)
(*                                                                         *)
(* The driver is modelled as an interpreter of its own call stack: every   *)
(* function of the source is one action, and its program counter walks the *)
(* statements of that function.  One step is one pin write, one 16-bit     *)
(* exchange, one call or one return.                                       *)
(***************************************************************************)
EXTENDS Integers, Sequences, FiniteSets, TLC

VARIABLES
    stack,    \* per caller: the call stack, innermost activation last
    ret,      \* per caller: the value returned by the last non-void return
    cur,      \* per caller: the public operation called last (name, arguments)
    prev,     \* the operation called before the current one, and the registers before it
    pre,      \* registers and pin levels when the current operation was called
    log,      \* pin writes and frame exchanges done by the current operation
    nOps,     \* number of operations called so far
    cs,       \* level of the chip-select pin (_csPin)
    idle,     \* level of the mode-control pin (_idlePin)
    regs,     \* device: register file, 6-bit address -> byte
    pending,  \* device: the response it clocks out during the next exchange
    diag,     \* device: its standard diagnosis word
    w1c       \* device: TRUE when HWCR_OCL is write-1-to-clear, FALSE for plain memory

vars == <<stack, ret, cur, prev, pre, log, nOps, cs, idle, regs, pending, diag, w1c>>

----------------------------------------------------------------------------
(* Bounds of the model. *)

\* Number of operations called in one behaviour.
MaxOps == 2

----------------------------------------------------------------------------
(* C integer operators on unsigned values. *)

RECURSIVE BitAnd(_, _)
BitAnd(x, y) ==
    IF x = 0 \/ y = 0 THEN 0
    ELSE (x % 2) * (y % 2) + 2 * BitAnd(x \div 2, y \div 2)

BitOr(x, y) == x + y - BitAnd(x, y)

\* x << n, in an int wide enough for every use in the driver
Shl(x, n) == x * (2 ^ n)

\* ~x on a 16-bit pattern; the driver only keeps the low 8 bits of the result
BitNot(x) == 65535 - x

\* conversion to uint8_t / uint16_t
U8(x) == x % 256

U16(x) == x % 65536

LOW == 0

HIGH == 1

----------------------------------------------------------------------------
(* Register address table. *)

ADDR0_OUT == 0

ADDR0_MAPIN0 == 1

ADDR0_MAPIN1 == 2

ADDR0_INST == 1

ADDR0_DIAG_IOL == 2

ADDR0_DIAG_OSM == 2

ADDR0_HWCR == 3

ADDR0_HWCR_OCL == 3

REG_OUT == BitOr(Shl(ADDR0_OUT, 2), 0)

REG_MAPIN0 == BitOr(Shl(ADDR0_MAPIN0, 2), 0)

REG_MAPIN1 == BitOr(Shl(ADDR0_MAPIN1, 2), 1)

REG_INST == BitOr(Shl(ADDR0_INST, 2), 2)

REG_DIAG_IOL == BitOr(Shl(ADDR0_DIAG_IOL, 2), 0)

REG_DIAG_OSM == BitOr(Shl(ADDR0_DIAG_OSM, 2), 1)

REG_HWCR == BitOr(Shl(ADDR0_HWCR, 2), 0)

REG_HWCR_OCL == BitOr(Shl(ADDR0_HWCR_OCL, 2), 1)

SPI_CMD_READ == 16384

SPI_CMD_WRITE == 32768

----------------------------------------------------------------------------
(* The device: a register memory that answers exchange N during N+1. *)

\* addresses given to readRegister and writeRegister: the address table, and two
\* addresses with bits above the low six (0x49 -> 0x09, 0xFF -> 0x3F)
AddressArgs ==
    {REG_OUT, REG_MAPIN0, REG_MAPIN1, REG_INST, REG_DIAG_IOL, REG_DIAG_OSM,
     REG_HWCR, REG_HWCR_OCL, 73, 255}

\* the registers of the 6-bit address space that a frame of this model can address
DevAddrs == {a % 64 : a \in AddressArgs}

\* address of the error-latch register in the device's register map
DEV_HWCR_OCL == 13

\* fields of a received frame
FrameCmd(tx) == tx \div 16384

FrameAddr(tx) == (tx \div 256) % 64

FrameData(tx) == tx % 256

IsWriteFrame(tx) == FrameCmd(tx) = 2

IsReadFrame(tx) == FrameCmd(tx) = 1 /\ tx % 4 = 2

\* the register file after the device has received tx
DevRegs(tx) ==
    IF IsWriteFrame(tx)
    THEN [regs EXCEPT ![FrameAddr(tx)] =
              IF w1c /\ FrameAddr(tx) = DEV_HWCR_OCL
              THEN BitAnd(@, 255 - FrameData(tx))
              ELSE FrameData(tx)]
    ELSE regs

\* the response the device prepares for the next exchange
DevResponse(tx) ==
    IF IsReadFrame(tx)
    THEN [kind |-> "read", val |-> 32768 + 256 * FrameAddr(tx) + regs[FrameAddr(tx)]]
    ELSE IF IsWriteFrame(tx)
    THEN [kind |-> "write", val |-> diag]
    ELSE [kind |-> "none", val |-> diag]

----------------------------------------------------------------------------
(* Call stack of the driver. *)

\* the callers of one driver instance; Spec and RegisterSpec run caller 1 alone
Callers == {1, 2}

Activation(fn, a, v, on) ==
    [fn |-> fn, pc |-> 1, a |-> a, v |-> v, on |-> on, loc |-> 0]

Top(t) == stack[t][Len(stack[t])]

Running(t, fn) == stack[t] # <<>> /\ Top(t).fn = fn

\* move to statement pc of the running function
Goto(t, pc) == stack' = [stack EXCEPT ![t][Len(stack[t])].pc = pc]

\* store a local, then move to statement pc
SetLocal(t, x, pc) ==
    stack' = [stack EXCEPT ![t][Len(stack[t])] = [@ EXCEPT !.loc = x, !.pc = pc]]

\* call callee; the caller resumes at statement pc
CallFn(t, pc, callee) ==
    stack' = [stack EXCEPT ![t] = Append([@ EXCEPT ![Len(@)].pc = pc], callee)]

\* call callee after storing a local of the caller
CallFnWith(t, x, pc, callee) ==
    stack' = [stack EXCEPT ![t] =
                 Append([@ EXCEPT ![Len(@)] = [@ EXCEPT !.loc = x, !.pc = pc]], callee)]

Pop(t) == stack' = [stack EXCEPT ![t] = SubSeq(@, 1, Len(@) - 1)]

ReturnVoid(t) == Pop(t) /\ UNCHANGED ret

ReturnValue(t, x) == Pop(t) /\ ret' = [ret EXCEPT ![t] = x]

PinEvent(pin, lvl) == [ev |-> pin, x |-> lvl, rx |-> 0]

XferEvent(tx, rx) == [ev |-> "xfer", x |-> tx, rx |-> rx]

hist == <<cur, prev, pre, nOps>>

device == <<regs, pending>>

config == <<diag, w1c>>

----------------------------------------------------------------------------
(* Low-level SPI functions. *)

\* spiTransfer16 returning without driving chip-select high again
spiTransfer16HoldsSelect(t) ==
    /\ Running(t, "spiTransfer16")
    /\ LET f == Top(t) IN
       CASE f.pc = 1 ->
              /\ cs' = LOW
              /\ log' = Append(log, PinEvent("cs", LOW))
              /\ Goto(t, 2)
              /\ UNCHANGED <<ret, idle, device>>
         [] f.pc = 2 ->
              /\ regs' = DevRegs(f.v)
              /\ pending' = DevResponse(f.v)
              /\ log' = Append(log, XferEvent(f.v, pending.val))
              /\ SetLocal(t, pending.val, 3)
              /\ UNCHANGED <<ret, cs, idle>>
         [] f.pc = 3 ->
              /\ ReturnValue(t, f.loc)
              /\ UNCHANGED <<cs, log, idle, device>>
    /\ UNCHANGED <<hist, config>>

\* uint16_t spiTransfer16(uint16_t txData): v = txData, loc = rxData
spiTransfer16(t) ==
    /\ Running(t, "spiTransfer16")
    /\ LET f == Top(t) IN
       CASE f.pc = 1 ->
              /\ cs' = LOW
              /\ log' = Append(log, PinEvent("cs", LOW))
              /\ Goto(t, 2)
              /\ UNCHANGED <<ret, idle, device>>
         [] f.pc = 2 ->
              /\ regs' = DevRegs(f.v)
              /\ pending' = DevResponse(f.v)
              /\ log' = Append(log, XferEvent(f.v, pending.val))
              /\ SetLocal(t, pending.val, 3)
              /\ UNCHANGED <<ret, cs, idle>>
         [] f.pc = 3 ->
              /\ cs' = HIGH
              /\ log' = Append(log, PinEvent("cs", HIGH))
              /\ ReturnValue(t, f.loc)
              /\ UNCHANGED <<idle, device>>
    /\ UNCHANGED <<hist, config>>

\* the write frame built with the address in the low byte, without "<< 8"
WriteCmdNoShift(address, value) ==
    BitOr(BitOr(32768, BitAnd(U16(address), 16128)), value)

\* the write frame built without "& 0x3F00"
WriteCmdNoMask(address, value) ==
    BitOr(BitOr(32768, U16(Shl(address, 8))), value)

WriteCmd(address, value) ==
    BitOr(BitOr(32768, BitAnd(U16(Shl(address, 8)), 16128)), value)

\* writeRegister without its trailing dummy exchange
writeRegisterNoDrain(t) ==
    /\ Running(t, "writeRegister")
    /\ LET f == Top(t) IN
       CASE f.pc = 1 ->
              /\ CallFn(t, 2, Activation("spiTransfer16", 0, WriteCmd(f.a, f.v), FALSE))
              /\ UNCHANGED ret
         [] f.pc = 2 ->
              ReturnVoid(t)
    /\ UNCHANGED <<hist, log, cs, idle, device, config>>

\* void writeRegister(uint8_t address, uint8_t value): a = address, v = value
writeRegister(t) ==
    /\ Running(t, "writeRegister")
    /\ LET f == Top(t) IN
       CASE f.pc = 1 ->
              /\ CallFn(t, 2, Activation("spiTransfer16", 0, WriteCmd(f.a, f.v), FALSE))
              /\ UNCHANGED ret
         [] f.pc = 2 ->
              /\ CallFn(t, 3, Activation("spiTransfer16", 0, 0, FALSE))
              /\ UNCHANGED ret
         [] f.pc = 3 ->
              ReturnVoid(t)
    /\ UNCHANGED <<hist, log, cs, idle, device, config>>

\* the read command built without the trailing "10" bits
ReadCmdNoTrailer(address) ==
    BitOr(16384, BitAnd(U16(Shl(address, 8)), 16128))

\* the read command built from the write pattern 0x8000
ReadCmdWritePattern(address) ==
    BitOr(BitOr(32768, BitAnd(U16(Shl(address, 8)), 16128)), 2)

\* the read command built without the address, as the literal 0x4002
ReadCmdNoAddress(address) == 16386

ReadCmd(address) ==
    BitOr(BitOr(16384, BitAnd(U16(Shl(address, 8)), 16128)), 2)

\* readRegister decoding the response of its first exchange instead of the second
readRegisterFirstResponse(t) ==
    /\ Running(t, "readRegister")
    /\ LET f == Top(t) IN
       CASE f.pc = 1 ->
              /\ CallFn(t, 2, Activation("spiTransfer16", 0, ReadCmd(f.a), FALSE))
              /\ UNCHANGED ret
         [] f.pc = 2 ->
              /\ CallFnWith(t, U8(BitAnd(ret[t], 255)), 3,
                            Activation("spiTransfer16", 0, 0, FALSE))
              /\ UNCHANGED ret
         [] f.pc = 3 ->
              /\ CallFn(t, 4, Activation("spiTransfer16", 0, 0, FALSE))
              /\ UNCHANGED ret
         [] f.pc = 4 ->
              ReturnValue(t, f.loc)
    /\ UNCHANGED <<hist, log, cs, idle, device, config>>

\* uint8_t readRegister(uint8_t address): a = address, loc = value
readRegister(t) ==
    /\ Running(t, "readRegister")
    /\ LET f == Top(t) IN
       CASE f.pc = 1 ->
              /\ CallFn(t, 2, Activation("spiTransfer16", 0, ReadCmd(f.a), FALSE))
              /\ UNCHANGED ret
         [] f.pc = 2 ->
              /\ CallFn(t, 3, Activation("spiTransfer16", 0, 0, FALSE))
              /\ UNCHANGED ret
         [] f.pc = 3 ->
              /\ CallFnWith(t, U8(BitAnd(ret[t], 255)), 4,
                            Activation("spiTransfer16", 0, 0, FALSE))
              /\ UNCHANGED ret
         [] f.pc = 4 ->
              ReturnValue(t, f.loc)
    /\ UNCHANGED <<hist, log, cs, idle, device, config>>

----------------------------------------------------------------------------
(* Public operations. *)

NoIO == UNCHANGED <<log, cs, idle, device>>

\* void begin()
begin(t) ==
    /\ Running(t, "begin")
    /\ LET f == Top(t) IN
       CASE f.pc = 1 ->
              /\ cs' = HIGH
              /\ log' = Append(log, PinEvent("cs", HIGH))
              /\ Goto(t, 2)
              /\ UNCHANGED <<ret, idle, device>>
         [] f.pc = 2 ->
              /\ idle' = HIGH
              /\ log' = Append(log, PinEvent("idle", HIGH))
              /\ Goto(t, 3)
              /\ UNCHANGED <<ret, cs, device>>
         [] f.pc = 3 ->
              /\ CallFn(t, 4, Activation("initializeDevice", 0, 0, FALSE))
              /\ UNCHANGED ret /\ NoIO
         [] f.pc = 4 ->
              ReturnVoid(t) /\ NoIO
    /\ UNCHANGED <<hist, config>>

\* initializeDevice configuring HWCR and OUT before it clears the error latches
initializeDeviceReordered(t) ==
    /\ Running(t, "initializeDevice")
    /\ LET f == Top(t) IN
       CASE f.pc = 1 -> CallFn(t, 2, Activation("writeRegister", REG_HWCR, 128, FALSE))
         [] f.pc = 2 -> CallFn(t, 3, Activation("writeRegister", REG_OUT, 0, FALSE))
         [] f.pc = 3 -> CallFn(t, 4, Activation("writeRegister", REG_MAPIN0, 4, FALSE))
         [] f.pc = 4 -> CallFn(t, 5, Activation("writeRegister", REG_MAPIN1, 8, FALSE))
         [] f.pc = 5 -> CallFn(t, 6, Activation("writeRegister", REG_DIAG_IOL, 0, FALSE))
         [] f.pc = 6 -> CallFn(t, 7, Activation("clearAllErrors", 0, 0, FALSE))
         [] f.pc = 7 -> Pop(t)
    /\ UNCHANGED <<ret, hist, log, cs, idle, device, config>>

\* void initializeDevice()
initializeDevice(t) ==
    /\ Running(t, "initializeDevice")
    /\ LET f == Top(t) IN
       CASE f.pc = 1 -> CallFn(t, 2, Activation("clearAllErrors", 0, 0, FALSE))
         [] f.pc = 2 -> CallFn(t, 3, Activation("writeRegister", REG_MAPIN0, 4, FALSE))
         [] f.pc = 3 -> CallFn(t, 4, Activation("writeRegister", REG_MAPIN1, 8, FALSE))
         [] f.pc = 4 -> CallFn(t, 5, Activation("writeRegister", REG_DIAG_IOL, 0, FALSE))
         [] f.pc = 5 -> CallFn(t, 6, Activation("writeRegister", REG_HWCR, 128, FALSE))
         [] f.pc = 6 -> CallFn(t, 7, Activation("writeRegister", REG_OUT, 0, FALSE))
         [] f.pc = 7 -> Pop(t)
    /\ UNCHANGED <<ret, hist, log, cs, idle, device, config>>

\* enterSleep driving the mode-control pin low before it writes OUT
enterSleepPinFirst(t) ==
    /\ Running(t, "enterSleep")
    /\ LET f == Top(t) IN
       CASE f.pc = 1 ->
              /\ idle' = LOW
              /\ log' = Append(log, PinEvent("idle", LOW))
              /\ Goto(t, 2)
              /\ UNCHANGED <<ret, cs, device>>
         [] f.pc = 2 ->
              /\ CallFn(t, 3, Activation("writeRegister", REG_OUT, 0, FALSE))
              /\ UNCHANGED ret /\ NoIO
         [] f.pc = 3 ->
              ReturnVoid(t) /\ NoIO
    /\ UNCHANGED <<hist, config>>

\* void enterSleep()
enterSleep(t) ==
    /\ Running(t, "enterSleep")
    /\ LET f == Top(t) IN
       CASE f.pc = 1 ->
              /\ CallFn(t, 2, Activation("writeRegister", REG_OUT, 0, FALSE))
              /\ UNCHANGED ret /\ NoIO
         [] f.pc = 2 ->
              /\ idle' = LOW
              /\ log' = Append(log, PinEvent("idle", LOW))
              /\ ReturnVoid(t)
              /\ UNCHANGED <<cs, device>>
    /\ UNCHANGED <<hist, config>>

\* enterActive writing HWCR = 0x80 without reading the register first
enterActiveOverwrite(t) ==
    /\ Running(t, "enterActive")
    /\ LET f == Top(t) IN
       CASE f.pc = 1 ->
              /\ idle' = HIGH
              /\ log' = Append(log, PinEvent("idle", HIGH))
              /\ Goto(t, 2)
              /\ UNCHANGED <<ret, cs, device>>
         [] f.pc = 2 ->
              /\ CallFn(t, 3, Activation("writeRegister", REG_HWCR, 128, FALSE))
              /\ UNCHANGED ret /\ NoIO
         [] f.pc = 3 ->
              ReturnVoid(t) /\ NoIO
    /\ UNCHANGED <<hist, config>>

\* void enterActive(): loc = hwcr
enterActive(t) ==
    /\ Running(t, "enterActive")
    /\ LET f == Top(t) IN
       CASE f.pc = 1 ->
              /\ idle' = HIGH
              /\ log' = Append(log, PinEvent("idle", HIGH))
              /\ Goto(t, 2)
              /\ UNCHANGED <<ret, cs, device>>
         [] f.pc = 2 ->
              /\ CallFn(t, 3, Activation("readRegister", REG_HWCR, 0, FALSE))
              /\ UNCHANGED ret /\ NoIO
         [] f.pc = 3 ->
              /\ LET hwcr == U8(BitOr(ret[t], 128)) IN
                 CallFnWith(t, hwcr, 4, Activation("writeRegister", REG_HWCR, hwcr, FALSE))
              /\ UNCHANGED ret /\ NoIO
         [] f.pc = 4 ->
              ReturnVoid(t) /\ NoIO
    /\ UNCHANGED <<hist, config>>

\* uint8_t readOutputs()
readOutputs(t) ==
    /\ Running(t, "readOutputs")
    /\ LET f == Top(t) IN
       CASE f.pc = 1 ->
              /\ CallFn(t, 2, Activation("readRegister", REG_OUT, 0, FALSE))
              /\ UNCHANGED ret
         [] f.pc = 2 ->
              ReturnValue(t, ret[t])
    /\ UNCHANGED <<hist, log, cs, idle, device, config>>

\* writeOutputs waking the device through enterActive() before it writes
writeOutputsWaking(t) ==
    /\ Running(t, "writeOutputs")
    /\ LET f == Top(t) IN
       CASE f.pc = 1 -> CallFn(t, 2, Activation("enterActive", 0, 0, FALSE))
         [] f.pc = 2 -> CallFn(t, 3, Activation("writeRegister", REG_OUT, f.v, FALSE))
         [] f.pc = 3 -> Pop(t)
    /\ UNCHANGED <<ret, hist, log, cs, idle, device, config>>

\* void writeOutputs(uint8_t mask): v = mask
writeOutputs(t) ==
    /\ Running(t, "writeOutputs")
    /\ LET f == Top(t) IN
       CASE f.pc = 1 -> CallFn(t, 2, Activation("writeRegister", REG_OUT, f.v, FALSE))
         [] f.pc = 2 -> Pop(t)
    /\ UNCHANGED <<ret, hist, log, cs, idle, device, config>>

\* the bit update written with = in place of |= and &=
ModifyBitClobber(current, channel, on) ==
    IF on THEN U8(Shl(1, channel))
    ELSE U8(BitAnd(255, BitNot(Shl(1, channel))))

\* if(on) current |= (1 << channel); else current &= ~(1 << channel);
ModifyBit(current, channel, on) ==
    IF on THEN U8(BitOr(current, Shl(1, channel)))
    ELSE U8(BitAnd(current, BitNot(Shl(1, channel))))

\* the bounds check off by one
OutOfRangeOffByOne(channel) == channel > 8

\* the bounds check of setChannel, toggleOutput and clearError
OutOfRange(channel) == channel > 7

\* setChannel computing the new mask from 0x00 instead of the mask it read
setChannelNoRead(t) ==
    /\ Running(t, "setChannel")
    /\ LET f == Top(t) IN
       CASE f.pc = 1 ->
              IF OutOfRange(f.a) THEN Pop(t)
              ELSE CallFn(t, 2, Activation("readOutputs", 0, 0, FALSE))
         [] f.pc = 2 ->
              LET current == ModifyBit(0, f.a, f.on) IN
              CallFnWith(t, current, 3, Activation("writeOutputs", 0, current, FALSE))
         [] f.pc = 3 -> Pop(t)
    /\ UNCHANGED <<ret, hist, log, cs, idle, device, config>>

\* void setChannel(uint8_t channel, bool on): a = channel, loc = current
setChannel(t) ==
    /\ Running(t, "setChannel")
    /\ LET f == Top(t) IN
       CASE f.pc = 1 ->
              IF OutOfRange(f.a) THEN Pop(t)
              ELSE CallFn(t, 2, Activation("readOutputs", 0, 0, FALSE))
         [] f.pc = 2 ->
              LET current == ModifyBit(ret[t], f.a, f.on) IN
              CallFnWith(t, current, 3, Activation("writeOutputs", 0, current, FALSE))
         [] f.pc = 3 -> Pop(t)
    /\ UNCHANGED <<ret, hist, log, cs, idle, device, config>>

\* toggleOutput without the "channel--" of the 1-based adapter
toggleOutputNoDecrement(t) ==
    /\ Running(t, "toggleOutput")
    /\ LET f == Top(t) IN
       CASE f.pc = 1 -> Goto(t, 2)
         [] f.pc = 2 ->
              IF OutOfRange(f.a) THEN Pop(t)
              ELSE CallFn(t, 3, Activation("readOutputs", 0, 0, FALSE))
         [] f.pc = 3 ->
              LET current == ModifyBit(ret[t], f.a, f.on) IN
              CallFnWith(t, current, 4, Activation("writeOutputs", 0, current, FALSE))
         [] f.pc = 4 -> Pop(t)
    /\ UNCHANGED <<ret, hist, log, cs, idle, device, config>>

\* void toggleOutput(uint8_t channel, bool on): a = channel, loc = current
toggleOutput(t) ==
    /\ Running(t, "toggleOutput")
    /\ LET f == Top(t) IN
       CASE f.pc = 1 ->
              stack' = [stack EXCEPT ![t][Len(stack[t])] =
                           [@ EXCEPT !.a = U8(f.a - 1), !.pc = 2]]
         [] f.pc = 2 ->
              IF OutOfRange(f.a) THEN Pop(t)
              ELSE CallFn(t, 3, Activation("readOutputs", 0, 0, FALSE))
         [] f.pc = 3 ->
              LET current == ModifyBit(ret[t], f.a, f.on) IN
              CallFnWith(t, current, 4, Activation("writeOutputs", 0, current, FALSE))
         [] f.pc = 4 -> Pop(t)
    /\ UNCHANGED <<ret, hist, log, cs, idle, device, config>>

\* void clearAllErrors()
clearAllErrors(t) ==
    /\ Running(t, "clearAllErrors")
    /\ LET f == Top(t) IN
       CASE f.pc = 1 -> CallFn(t, 2, Activation("writeRegister", REG_HWCR_OCL, 255, FALSE))
         [] f.pc = 2 -> Pop(t)
    /\ UNCHANGED <<ret, hist, log, cs, idle, device, config>>

\* clearError writing the channel number itself instead of the mask 1 << channel
clearErrorMaskIsChannel(t) ==
    /\ Running(t, "clearError")
    /\ LET f == Top(t) IN
       CASE f.pc = 1 ->
              IF OutOfRange(f.a) THEN Pop(t)
              ELSE CallFnWith(t, f.a, 2, Activation("writeRegister", REG_HWCR_OCL, f.a, FALSE))
         [] f.pc = 2 -> Pop(t)
    /\ UNCHANGED <<ret, hist, log, cs, idle, device, config>>

\* void clearError(uint8_t channel): a = channel
clearError(t) ==
    /\ Running(t, "clearError")
    /\ LET f == Top(t) IN
       CASE f.pc = 1 ->
              IF OutOfRange(f.a) THEN Pop(t)
              ELSE LET mask == U8(Shl(1, f.a)) IN
                   CallFnWith(t, mask, 2, Activation("writeRegister", REG_HWCR_OCL, mask, FALSE))
         [] f.pc = 2 -> Pop(t)
    /\ UNCHANGED <<ret, hist, log, cs, idle, device, config>>

\* readStandardDiagnosis returning its result through an 8-bit type
readStandardDiagnosisTruncated(t) ==
    /\ Running(t, "readStandardDiagnosis")
    /\ LET f == Top(t) IN
       CASE f.pc = 1 ->
              /\ CallFn(t, 2, Activation("spiTransfer16", 0, 16386, FALSE))
              /\ UNCHANGED ret
         [] f.pc = 2 ->
              /\ CallFn(t, 3, Activation("spiTransfer16", 0, 0, FALSE))
              /\ UNCHANGED ret
         [] f.pc = 3 ->
              ReturnValue(t, U8(ret[t]))
    /\ UNCHANGED <<hist, log, cs, idle, device, config>>

\* uint16_t readStandardDiagnosis(): loc = diag
readStandardDiagnosis(t) ==
    /\ Running(t, "readStandardDiagnosis")
    /\ LET f == Top(t) IN
       CASE f.pc = 1 ->
              /\ CallFn(t, 2, Activation("spiTransfer16", 0, 16386, FALSE))
              /\ UNCHANGED ret
         [] f.pc = 2 ->
              /\ CallFn(t, 3, Activation("spiTransfer16", 0, 0, FALSE))
              /\ UNCHANGED ret
         [] f.pc = 3 ->
              ReturnValue(t, ret[t])
    /\ UNCHANGED <<hist, log, cs, idle, device, config>>

\* uint8_t readOutputStatusMonitor()
readOutputStatusMonitor(t) ==
    /\ Running(t, "readOutputStatusMonitor")
    /\ LET f == Top(t) IN
       CASE f.pc = 1 ->
              /\ CallFn(t, 2, Activation("readRegister", REG_DIAG_OSM, 0, FALSE))
              /\ UNCHANGED ret
         [] f.pc = 2 ->
              ReturnValue(t, ret[t])
    /\ UNCHANGED <<hist, log, cs, idle, device, config>>

\* void writeDiagnosticCurrent(uint8_t mask): v = mask
writeDiagnosticCurrent(t) ==
    /\ Running(t, "writeDiagnosticCurrent")
    /\ LET f == Top(t) IN
       CASE f.pc = 1 -> CallFn(t, 2, Activation("writeRegister", REG_DIAG_IOL, f.v, FALSE))
         [] f.pc = 2 -> Pop(t)
    /\ UNCHANGED <<ret, hist, log, cs, idle, device, config>>

\* uint8_t readDiagnosticCurrent()
readDiagnosticCurrent(t) ==
    /\ Running(t, "readDiagnosticCurrent")
    /\ LET f == Top(t) IN
       CASE f.pc = 1 ->
              /\ CallFn(t, 2, Activation("readRegister", REG_DIAG_IOL, 0, FALSE))
              /\ UNCHANGED ret
         [] f.pc = 2 ->
              ReturnValue(t, ret[t])
    /\ UNCHANGED <<hist, log, cs, idle, device, config>>

----------------------------------------------------------------------------
(* Callers of the driver, and the initial state. *)

Invocation(name, a, v, on) == [name |-> name, a |-> a, v |-> v, on |-> on]

\* channel arguments given to setChannel: in range and out of range
ChannelArgs == {1, 7, 8}

\* channel numbers given to toggleOutput (1-based)
ToggleArgs == {0, 2, 9}

\* channel arguments given to clearError: in range and out of range
ClearArgs == {1, 255}

\* masks given to writeOutputs and writeDiagnosticCurrent
MaskArgs == {165}

PublicCalls ==
    {Invocation(n, 0, 0, FALSE) :
        n \in {"begin", "enterSleep", "enterActive", "readOutputs", "clearAllErrors",
               "readStandardDiagnosis", "readOutputStatusMonitor",
               "readDiagnosticCurrent"}}
    \cup {Invocation(n, 0, m, FALSE) :
            n \in {"writeOutputs", "writeDiagnosticCurrent"}, m \in MaskArgs}
    \cup {Invocation("setChannel", c, 0, on) : c \in ChannelArgs, on \in BOOLEAN}
    \cup {Invocation("toggleOutput", c, 0, on) : c \in ToggleArgs, on \in BOOLEAN}
    \cup {Invocation("clearError", c, 0, FALSE) : c \in ClearArgs}

\* values given to writeRegister
ValueArgs == {5, 255}

RegisterCalls ==
    {Invocation("readRegister", a, 0, FALSE) : a \in AddressArgs}
    \cup {Invocation("writeRegister", a, v, FALSE) : a \in AddressArgs, v \in ValueArgs}

Idle == \A t \in Callers : stack[t] = <<>>

\* caller t calls operation op
CallOp(t, op) ==
    /\ Idle
    /\ nOps < MaxOps
    /\ stack' = [stack EXCEPT ![t] = <<Activation(op.name, op.a, op.v, op.on)>>]
    /\ cur' = [cur EXCEPT ![t] = op]
    /\ prev' = [op |-> cur[t], regs |-> pre.regs]
    /\ pre' = [regs |-> regs, cs |-> cs, idle |-> idle]
    /\ log' = <<>>
    /\ nOps' = nOps + 1
    /\ UNCHANGED <<ret, cs, idle, device, config>>

Call(t) == \E op \in PublicCalls : CallOp(t, op)

CallRegister(t) == \E op \in RegisterCalls : CallOp(t, op)

\* the device is preloaded with one value at one address, all other registers 0
Preloads ==
    {<<REG_OUT, 0>>, <<REG_OUT, 255>>, <<REG_OUT, 165>>, <<REG_HWCR, 5>>,
     <<REG_DIAG_OSM, 5>>, <<REG_HWCR_OCL, 255>>}

Preloaded(p) == [r \in DevAddrs |-> IF r = p[1] THEN p[2] ELSE 0]

\* the boards the driver is attached to: the kind of the device's error-latch
\* register, its standard diagnosis word, and the pin levels at power-up
Boards ==
    {[w1c |-> FALSE, diag |-> 0, cs |-> HIGH, idle |-> HIGH],
     [w1c |-> TRUE, diag |-> 32261, cs |-> LOW, idle |-> LOW]}

NoOp == Invocation("none", 0, 0, FALSE)

\* the state after construction: the constructor stores the two pin numbers only
InitOn(b, p) ==
    /\ stack = [t \in Callers |-> <<>>]
    /\ ret = [t \in Callers |-> 0]
    /\ cur = [t \in Callers |-> NoOp]
    /\ regs = Preloaded(p)
    /\ cs = b.cs
    /\ idle = b.idle
    /\ diag = b.diag
    /\ w1c = b.w1c
    /\ pending = [kind |-> "stale", val |-> b.diag]
    /\ prev = [op |-> NoOp, regs |-> Preloaded(p)]
    /\ pre = [regs |-> Preloaded(p), cs |-> b.cs, idle |-> b.idle]
    /\ log = <<>>
    /\ nOps = 0

Init == \E b \in Boards, p \in Preloads : InitOn(b, p)

\* register-memory devices, with the pins as begin() leaves them
MemoryBoards ==
    {[w1c |-> FALSE, diag |-> d, cs |-> HIGH, idle |-> HIGH] : d \in {0, 32261}}

RegisterPreloads ==
    {<<REG_OUT, 0>>, <<REG_DIAG_OSM, 5>>, <<REG_HWCR_OCL, 255>>, <<63, 165>>}

RegisterInit == \E b \in MemoryBoards, p \in RegisterPreloads : InitOn(b, p)

Next ==
    \E t \in {1} :
        \/ Call(t)
        \/ begin(t)
        \/ initializeDevice(t)
        \/ enterSleep(t)
        \/ enterActive(t)
        \/ readOutputs(t)
        \/ writeOutputs(t)
        \/ setChannel(t)
        \/ toggleOutput(t)
        \/ clearAllErrors(t)
        \/ clearError(t)
        \/ readStandardDiagnosis(t)
        \/ readOutputStatusMonitor(t)
        \/ writeDiagnosticCurrent(t)
        \/ readDiagnosticCurrent(t)
        \/ readRegister(t)
        \/ writeRegister(t)
        \/ spiTransfer16(t)

Spec == Init /\ [][Next]_vars

\* the register access functions called directly
RegisterNext ==
    \E t \in {1} :
        \/ CallRegister(t)
        \/ readRegister(t)
        \/ writeRegister(t)
        \/ spiTransfer16(t)

RegisterSpec == RegisterInit /\ [][RegisterNext]_vars

\* the error-latch operations, followed by a read of the latch register
LatchArgs == 0 .. 8

LatchCalls ==
    {Invocation("clearAllErrors", 0, 0, FALSE),
     Invocation("readRegister", REG_HWCR_OCL, 0, FALSE)}
    \cup {Invocation("clearError", c, 0, FALSE) : c \in LatchArgs}

CallLatch(t) == \E op \in LatchCalls : CallOp(t, op)

\* the latches that are set when the driver is called
LatchPreloads == {<<REG_HWCR_OCL, 255>>, <<REG_HWCR_OCL, 165>>}

LatchInit == \E b \in Boards, p \in LatchPreloads : InitOn(b, p)

LatchNext ==
    \E t \in {1} :
        \/ CallLatch(t)
        \/ clearAllErrors(t)
        \/ clearError(t)
        \/ readRegister(t)
        \/ writeRegister(t)
        \/ spiTransfer16(t)

LatchSpec == LatchInit /\ [][LatchNext]_vars

\* two callers of setChannel on one device, without mutual exclusion around the
\* calls: the bus carries one 16-bit exchange at a time, so caller t takes a
\* step only while no other caller is between chip-select low and chip-select
\* high of spiTransfer16
BusFree(t) ==
    \A u \in Callers \ {t} : ~(Running(u, "spiTransfer16") /\ Top(u).pc > 1)

\* caller u has called and its call has returned
Finished(u) == cur[u] # NoOp /\ stack[u] = <<>>

\* caller t calls setChannel once, on an in-range channel no other caller uses;
\* prev records the other caller's call when that call had already returned
ConcCall(t) ==
    /\ stack[t] = <<>>
    /\ cur[t] = NoOp
    /\ nOps < MaxOps
    /\ \E c \in {x \in ChannelArgs : ~OutOfRange(x)}, on \in BOOLEAN :
          /\ \A u \in Callers \ {t} : cur[u] = NoOp \/ cur[u].a # c
          /\ stack' = [stack EXCEPT ![t] = <<Activation("setChannel", c, 0, on)>>]
          /\ cur' = [cur EXCEPT ![t] = Invocation("setChannel", c, 0, on)]
    /\ prev' = IF \E u \in Callers \ {t} : Finished(u)
               THEN [op |-> cur[CHOOSE u \in Callers \ {t} : Finished(u)],
                     regs |-> pre.regs]
               ELSE prev
    /\ pre' = IF nOps = 0 THEN [regs |-> regs, cs |-> cs, idle |-> idle] ELSE pre
    /\ nOps' = nOps + 1
    /\ UNCHANGED <<ret, log, cs, idle, device, config>>

\* the OUT masks the two callers start from
ConcPreloads == {<<REG_OUT, 0>>, <<REG_OUT, 165>>}

ConcInit == \E b \in Boards, p \in ConcPreloads : InitOn(b, p)

ConcNext ==
    \E t \in Callers :
        \/ BusFree(t) /\ ConcCall(t)
        \/ BusFree(t) /\ setChannel(t)
        \/ BusFree(t) /\ readOutputs(t)
        \/ BusFree(t) /\ writeOutputs(t)
        \/ BusFree(t) /\ readRegister(t)
        \/ BusFree(t) /\ writeRegister(t)
        \/ BusFree(t) /\ spiTransfer16(t)

ConcSpec == ConcInit /\ [][ConcNext]_vars

----------------------------------------------------------------------------
(* Observations used by the properties. *)

\* caller 1 has called the operation `name` and it has returned
Returned(name) == Idle /\ cur[1].name = name

\* the operation `name` of caller 1 is running or has returned
InOp(name) == cur[1].name = name

IsXfer(e) == e.ev = "xfer"

\* the exchanges of the current operation, in order
Xfers == SelectSeq(log, IsXfer)

\* the frames transmitted by the current operation, in order
Sent == [i \in 1 .. Len(Xfers) |-> Xfers[i].x]

\* the frames transmitted before the k-th event of the log
SentBefore(k) ==
    LET x == SelectSeq(SubSeq(log, 1, k - 1), IsXfer) IN [i \in 1 .. Len(x) |-> x[i].x]

\* the wire format of section 6 of the specification
WriteFrame(a, v) == 32768 + 256 * (a % 64) + v

ReadRequestFrame(a) == 16384 + 256 * (a % 64) + 2

NoOpFrame == 0

\* bit k of a byte
Bit(x, k) == (x \div (2 ^ k)) % 2

IsPrefix(p, q) == Len(p) <= Len(q) /\ \A i \in 1 .. Len(p) : p[i] = q[i]

AddressTable ==
    {REG_OUT, REG_MAPIN0, REG_MAPIN1, REG_INST, REG_DIAG_IOL, REG_DIAG_OSM,
     REG_HWCR, REG_HWCR_OCL}

----------------------------------------------------------------------------
(* Properties. *)

\* C1: readRegister(a) performs exactly three exchanges, the read-request frame
\* for a and then two 0x0000 frames, returns the low 8 bits of the response to
\* the second exchange, and that value is the register the device holds at a.
C1_ReadRegisterProtocol ==
    Returned("readRegister") =>
        /\ Sent = <<ReadRequestFrame(cur[1].a), NoOpFrame, NoOpFrame>>
        /\ ret[1] = Xfers[2].rx % 256
        /\ ret[1] = pre.regs[cur[1].a % 64]

\* readRegister(DIAG_OSM) has returned 0x05 from a device holding 0x05 at 0x09
C1_Witness ==
    /\ Returned("readRegister")
    /\ cur[1].a = 9
    /\ pre.regs[9] = 5
    /\ ret[1] = 5
    /\ Len(Xfers) = 3

C3_PipelineDrained ==
    Idle =>
        /\ pending.kind \notin {"read", "write"}
        /\ Sent # <<>> => Sent[Len(Sent)] = NoOpFrame /\ pending.kind = "none"

\* two operations that exchange frames have returned, the second a diagnosis read
C3_Witness ==
    /\ Returned("readStandardDiagnosis")
    /\ prev.op.name = "setChannel"
    /\ Len(Sent) = 2
    /\ pending.kind = "none"

\* C4: on a register-memory device, readRegister(R) called right after
\* writeRegister(R, v) returns v, for every register R of the address table.
C4_RoundTrip ==
    (/\ Returned("readRegister")
     /\ prev.op.name = "writeRegister"
     /\ prev.op.a = cur[1].a
     /\ cur[1].a \in AddressTable)
        => ret[1] = prev.op.v

\* HWCR_OCL was written with 0xFF on a device that held 0 there, and read back
C4_Witness ==
    /\ Returned("readRegister")
    /\ prev.op.name = "writeRegister"
    /\ prev.op.a = REG_HWCR_OCL
    /\ cur[1].a = REG_HWCR_OCL
    /\ prev.op.v = 255
    /\ prev.regs[REG_HWCR_OCL] = 0
    /\ ret[1] = 255

\* C5: setChannel(i, on) with i in 0..7 leaves OUT equal to its value at the call
\* with bit i = on and the other seven bits unchanged; setChannel(i, true) then
\* setChannel(j, false), i # j, leaves bit i = 1, bit j = 0 and the other bits as
\* they were before the first call; from 0x00, setChannel(1, true) gives 0x02.
C5_BitIsolation ==
    (Returned("setChannel") /\ cur[1].a <= 7) =>
        /\ \A k \in 0 .. 7 :
              Bit(regs[REG_OUT], k) =
                  IF k = cur[1].a THEN (IF cur[1].on THEN 1 ELSE 0)
                  ELSE Bit(pre.regs[REG_OUT], k)
        /\ regs[REG_OUT] \in 0 .. 255
        /\ (pre.regs[REG_OUT] = 0 /\ cur[1].a = 1 /\ cur[1].on) => regs[REG_OUT] = 2
        /\ (/\ prev.op.name = "setChannel"
            /\ prev.op.a <= 7
            /\ prev.op.a # cur[1].a
            /\ prev.op.on
            /\ ~cur[1].on)
              => \A k \in 0 .. 7 :
                    Bit(regs[REG_OUT], k) =
                        IF k = prev.op.a THEN 1
                        ELSE IF k = cur[1].a THEN 0
                        ELSE Bit(prev.regs[REG_OUT], k)

\* from OUT = 0xA5, setChannel(1, true) then setChannel(7, false) gave 0x27
C5_Witness ==
    /\ Returned("setChannel")
    /\ prev.op = Invocation("setChannel", 1, 0, TRUE)
    /\ cur[1] = Invocation("setChannel", 7, 0, FALSE)
    /\ prev.regs[REG_OUT] = 165
    /\ regs[REG_OUT] = 39

\* C6: setChannel(c, on) and clearError(c) with c > 7 exchange no frame, write
\* no pin and leave every device register and both pin levels unchanged.
C6_OutOfRangeNoOp ==
    ((Returned("setChannel") \/ Returned("clearError")) /\ cur[1].a > 7) =>
        /\ log = <<>>
        /\ regs = pre.regs
        /\ cs = pre.cs
        /\ idle = pre.idle

\* setChannel(8, true) has returned on a device with OUT = 0xA5 after
\* clearError(255) had returned
C6_Witness ==
    /\ Returned("setChannel")
    /\ cur[1] = Invocation("setChannel", 8, 0, TRUE)
    /\ prev.op = Invocation("clearError", 255, 0, FALSE)
    /\ regs[REG_OUT] = 165

\* the frames begin() sends, in order
BeginFrames ==
    <<WriteFrame(REG_HWCR_OCL, 255), NoOpFrame,
      WriteFrame(REG_MAPIN0, 4), NoOpFrame,
      WriteFrame(REG_MAPIN1, 8), NoOpFrame,
      WriteFrame(REG_DIAG_IOL, 0), NoOpFrame,
      WriteFrame(REG_HWCR, 128), NoOpFrame,
      WriteFrame(REG_OUT, 0), NoOpFrame>>

\* C7: begin() drives chip-select high and then the mode-control line high
\* before it exchanges any frame, then sends exactly the write and drain frames
\* of HWCR_OCL <- 0xFF, MAPIN0 <- 0x04, MAPIN1 <- 0x08, DIAG_IOL <- 0x00,
\* HWCR <- 0x80, OUT <- 0x00 in this order; on return OUT = 0x00 and HWCR = 0x80.
C7_InitializationOrder ==
    InOp("begin") =>
        /\ IsPrefix(Sent, BeginFrames)
        /\ Sent # <<>> =>
              /\ log[1] = PinEvent("cs", HIGH)
              /\ log[2] = PinEvent("idle", HIGH)
        /\ Returned("begin") =>
              /\ Sent = BeginFrames
              /\ regs[REG_OUT] = 0
              /\ regs[REG_HWCR] = 128

\* begin() has returned on a board that powered up with both pins low, OUT =
\* 0xFF and HWCR = 0
C7_Witness ==
    /\ Returned("begin")
    /\ pre.cs = LOW
    /\ pre.idle = LOW
    /\ pre.regs[REG_OUT] = 255
    /\ pre.regs[REG_HWCR] = 0
    /\ Len(Sent) = 12
    /\ cs = HIGH
    /\ idle = HIGH

\* C8: enterSleep() drives the mode-control line low only after the write frame
\* OUT <- 0x00 and its drain frame have been exchanged and chip-select is high
\* again; on return OUT = 0x00 and the mode-control line is low.
C8_SleepAfterOutputsOff ==
    InOp("enterSleep") =>
        /\ \A k \in 1 .. Len(log) :
              log[k] = PinEvent("idle", LOW) =>
                  /\ SentBefore(k) = <<WriteFrame(REG_OUT, 0), NoOpFrame>>
                  /\ log[k - 1] = PinEvent("cs", HIGH)
        /\ Returned("enterSleep") =>
              /\ log[Len(log)] = PinEvent("idle", LOW)
              /\ Sent = <<WriteFrame(REG_OUT, 0), NoOpFrame>>
              /\ regs[REG_OUT] = 0
              /\ idle = LOW

\* enterSleep() has returned after setChannel(7, true) had switched a channel
\* on with the mode-control line high
C8_Witness ==
    /\ Returned("enterSleep")
    /\ prev.op = Invocation("setChannel", 7, 0, TRUE)
    /\ pre.regs[REG_OUT] = 128
    /\ pre.idle = HIGH
    /\ regs[REG_OUT] = 0
    /\ idle = LOW

\* C9: enterActive() drives the mode-control line high before its first
\* exchange and leaves HWCR = h | 0x80 for the value h that HWCR held at the
\* call; a second enterActive() right after the first leaves the same HWCR value
\* and the same mode-line level as the first.
C9_EnterActiveIdempotent ==
    InOp("enterActive") =>
        /\ Sent # <<>> => log[1] = PinEvent("idle", HIGH)
        /\ Returned("enterActive") =>
              /\ regs[REG_HWCR] % 128 = pre.regs[REG_HWCR] % 128
              /\ regs[REG_HWCR] \div 128 = 1
              /\ idle = HIGH
              /\ prev.op.name = "enterActive" =>
                    /\ regs[REG_HWCR] = pre.regs[REG_HWCR]
                    /\ idle = pre.idle

\* enterActive() has returned twice in a row on a device whose HWCR was 0x05,
\* with the mode-control line low before the first call
C9_Witness ==
    /\ Returned("enterActive")
    /\ prev.op.name = "enterActive"
    /\ prev.regs[REG_HWCR] = 5
    /\ regs[REG_HWCR] = 133
    /\ idle = HIGH

\* the calls that require a channel ON or Active mode
RequiresActive(op) ==
    \/ op.name = "setChannel" /\ op.a <= 7 /\ op.on
    \/ op.name = "toggleOutput" /\ op.a \in 1 .. 8 /\ op.on
    \/ op.name = "writeOutputs" /\ op.v # 0
    \/ op.name = "enterActive"

\* C10: in the call that follows enterSleep(), if that call requires a channel ON
\* or Active mode, the mode-control line is high whenever the call has exchanged
\* a frame and when it has returned.
C10_WakeAfterSleep ==
    (prev.op.name = "enterSleep" /\ RequiresActive(cur[1])) =>
        /\ Sent # <<>> => idle = HIGH
        /\ Idle => idle = HIGH

\* the combined addresses of the table, in the order OUT, MAPIN0, MAPIN1, INST,
\* DIAG_IOL, DIAG_OSM, HWCR, HWCR_OCL
AddressList ==
    <<REG_OUT, REG_MAPIN0, REG_MAPIN1, REG_INST, REG_DIAG_IOL, REG_DIAG_OSM,
      REG_HWCR, REG_HWCR_OCL>>

\* C11: MAPIN1 and DIAG_OSM have different combined addresses, so that
\* readOutputStatusMonitor() called right after begin() (which writes MAPIN1 <-
\* 0x08) returns the value DIAG_OSM held before begin(); and the eight registers
\* of the table have pairwise distinct combined addresses.
C11_DistinctAddresses ==
    (Returned("readOutputStatusMonitor") /\ prev.op.name = "begin") =>
        /\ REG_MAPIN1 # REG_DIAG_OSM
        /\ ret[1] = prev.regs[REG_DIAG_OSM]
        /\ \A i, j \in 1 .. Len(AddressList) :
              i # j => AddressList[i] # AddressList[j]

\* the read-request frames readRegister sends for the registers of the table
TableReadFrames == {ReadCmd(r) : r \in AddressTable}

\* C12: the first frame readStandardDiagnosis() sends is none of the read-request
\* frames that readRegister sends for a register of the address table.
C12_DiagnosisRequestReserved ==
    (InOp("readStandardDiagnosis") /\ Sent # <<>>) => Sent[1] \notin TableReadFrames

\* C13: readStandardDiagnosis() performs exactly two exchanges, the request frame
\* 0x4002 and one 0x0000 frame, and returns all 16 bits of the response received
\* during the second exchange.
C13_DiagnosisSixteenBits ==
    Returned("readStandardDiagnosis") =>
        /\ Sent = <<16386, NoOpFrame>>
        /\ ret[1] = Xfers[2].rx
        /\ ret[1] \in 0 .. 65535

\* readStandardDiagnosis() has returned a word with bits set above the low eight
\* that differs from the response to its first exchange
C13_Witness ==
    /\ Returned("readStandardDiagnosis")
    /\ ret[1] > 255
    /\ ret[1] % 256 # 0
    /\ Xfers[1].rx # ret[1]

\* C14: the first frame writeRegister(a, v) sends is 0x8000 | ((a & 0x3F) << 8) | v:
\* bits[15:14] = 10, bits[13:8] = a & 0x3F, bits[7:0] = v, for 8-bit a and v.
C14_WriteFrameEncoding ==
    (InOp("writeRegister") /\ Sent # <<>>) =>
        /\ Sent[1] = 32768 + 256 * (cur[1].a % 64) + cur[1].v
        /\ Sent[1] \div 16384 = 2
        /\ (Sent[1] \div 256) % 64 = cur[1].a % 64
        /\ Sent[1] % 256 = cur[1].v

\* writeRegister(0xFF, 0x05) has sent 0xBF05
C14_Witness ==
    /\ InOp("writeRegister")
    /\ cur[1].a = 255
    /\ cur[1].v = 5
    /\ Sent # <<>>
    /\ Sent[1] = 48901

\* C15: the first frame readRegister(a) sends is 0x4000 | ((a & 0x3F) << 8) | 0x0002:
\* bits[15:14] = 01, bits[13:8] = a & 0x3F, bits[7:2] = 0 and bits[1:0] = 10.
C15_ReadFrameEncoding ==
    (InOp("readRegister") /\ Sent # <<>>) =>
        /\ Sent[1] = 16384 + 256 * (cur[1].a % 64) + 2
        /\ Sent[1] \div 16384 = 1
        /\ (Sent[1] \div 256) % 64 = cur[1].a % 64
        /\ (Sent[1] % 256) \div 4 = 0
        /\ Sent[1] % 4 = 2

\* readRegister(0x49) has sent 0x4902
C15_Witness ==
    /\ InOp("readRegister")
    /\ cur[1].a = 73
    /\ Sent # <<>>
    /\ Sent[1] = 18690

\* byte x with bit i cleared and the other seven bits kept
LatchCleared(x, y, i) ==
    \A k \in 0 .. 7 : Bit(y, k) = IF k = i THEN 0 ELSE Bit(x, k)

\* C16: clearAllErrors() sends exactly the write frame of HWCR_OCL (0x0D) <- 0xFF
\* and one drain frame, clearError(i) with i in 0..7 exactly the write frame of
\* HWCR_OCL <- 1 << i and one drain frame; on a write-1-to-clear device
\* clearError(i) clears latch i and keeps the other seven, and a read of
\* HWCR_OCL after clearAllErrors() returns 0x00.
C16_ErrorLatchClearing ==
    /\ Returned("clearAllErrors") =>
          /\ REG_HWCR_OCL = 13
          /\ Sent = <<32768 + 256 * 13 + 255, 0>>
          /\ w1c => regs[REG_HWCR_OCL] = 0
    /\ (Returned("clearError") /\ cur[1].a <= 7) =>
          /\ Sent = <<32768 + 256 * 13 + 2 ^ cur[1].a, 0>>
          /\ w1c => LatchCleared(pre.regs[REG_HWCR_OCL], regs[REG_HWCR_OCL], cur[1].a)
          /\ \A r \in DevAddrs \ {REG_HWCR_OCL} : regs[r] = pre.regs[r]
    /\ (Returned("readRegister") /\ cur[1].a = REG_HWCR_OCL /\ w1c) =>
          /\ prev.op.name = "clearAllErrors" => ret[1] = 0
          /\ (prev.op.name = "clearError" /\ prev.op.a <= 7) =>
                LatchCleared(prev.regs[REG_HWCR_OCL], ret[1], prev.op.a)

\* with all eight latches set on a write-1-to-clear device, clearError(3) and
\* then a read of HWCR_OCL returned 0xF7
C16_Witness ==
    /\ Returned("readRegister")
    /\ w1c
    /\ prev.op = Invocation("clearError", 3, 0, FALSE)
    /\ prev.regs[REG_HWCR_OCL] = 255
    /\ ret[1] = 247

\* mask out with bit c set (on) or cleared (off), by arithmetic on the bit
ChannelUpdate(out, c, on) ==
    IF on THEN out + (1 - Bit(out, c)) * 2 ^ c ELSE out - Bit(out, c) * 2 ^ c

\* the frames of setChannel(c, on) on a device whose OUT register holds out
ChannelFrames(out, c, on) ==
    <<ReadRequestFrame(REG_OUT), NoOpFrame, NoOpFrame,
      WriteFrame(REG_OUT, ChannelUpdate(out, c, on)), NoOpFrame>>

\* the returned operation sent the frames of setChannel(c, on) and left the
\* device in the state setChannel(c, on) leaves it in
ChannelEffect(c, on) ==
    /\ Sent = ChannelFrames(pre.regs[REG_OUT], c, on)
    /\ regs = [pre.regs EXCEPT ![REG_OUT] = ChannelUpdate(pre.regs[REG_OUT], c, on)]
    /\ pending = [kind |-> "none", val |-> diag]

\* C17: toggleOutput(n, on) with n in 1..8 sends the frames and leaves the device
\* state of setChannel(n - 1, on), for every OUT mask; with n = 0 or n in 9..255
\* it exchanges no frame and changes nothing.
C17_OneBasedAdapter ==
    /\ (Returned("setChannel") /\ cur[1].a <= 7) => ChannelEffect(cur[1].a, cur[1].on)
    /\ (Returned("toggleOutput") /\ cur[1].a \in 1 .. 8) =>
          ChannelEffect(cur[1].a - 1, cur[1].on)
    /\ (InOp("toggleOutput") /\ cur[1].a \notin 1 .. 8) =>
          /\ log = <<>>
          /\ regs = pre.regs
          /\ cs = pre.cs
          /\ idle = pre.idle

\* setChannel(1, true) turned OUT = 0xA5 into 0xA7 and toggleOutput(2, false)
\* turned it back into 0xA5
C17_Witness ==
    /\ Returned("toggleOutput")
    /\ prev.op = Invocation("setChannel", 1, 0, TRUE)
    /\ prev.regs[REG_OUT] = 165
    /\ pre.regs[REG_OUT] = 167
    /\ cur[1] = Invocation("toggleOutput", 2, 0, FALSE)
    /\ regs[REG_OUT] = 165

ReadOperations ==
    {"readOutputs", "readOutputStatusMonitor", "readDiagnosticCurrent",
     "readStandardDiagnosis"}

\* C18: readOutputs, readOutputStatusMonitor, readDiagnosticCurrent and
\* readStandardDiagnosis never send a frame with bits[15:14] = 10, and at every
\* point of such a call every device register holds its value from before the call.
C18_ReadsDoNotModify ==
    (cur[1].name \in ReadOperations) =>
        /\ \A i \in 1 .. Len(Sent) : Sent[i] \div 16384 # 2
        /\ regs = pre.regs

\* readOutputStatusMonitor() has returned on a write-1-to-clear device with all
\* eight error latches set, after three exchanges
C18_Witness ==
    /\ Returned("readOutputStatusMonitor")
    /\ w1c
    /\ regs[REG_HWCR_OCL] = 255
    /\ Len(Sent) = 3

ModeOperations == {"begin", "enterSleep", "enterActive"}

BothReturned == \A t \in Callers : Finished(t)

\* the second call started after the first one had returned
Sequential == prev.op # NoOp

\* the OUT mask holds the update of caller t
UpdatePresent(t) == Bit(regs[REG_OUT], cur[t].a) = IF cur[t].on THEN 1 ELSE 0

\* C20: two setChannel calls on distinct channels, interleaved frame by frame
\* without mutual exclusion, can lose one of the two updates; when one call
\* returns before the other starts the final OUT mask holds both updates and
\* the other six bits keep their value.
C20_SequentialKeepsBothUpdates ==
    (BothReturned /\ Sequential) =>
        /\ \A t \in Callers : UpdatePresent(t)
        /\ \A k \in 0 .. 7 :
              (\A t \in Callers : cur[t].a # k) =>
                  Bit(regs[REG_OUT], k) = Bit(pre.regs[REG_OUT], k)

\* a lost update: both calls overlapped and have returned, each wrote the mask
\* it computed, and the final OUT mask lacks the update of one caller
C20_Witness ==
    /\ BothReturned
    /\ ~Sequential
    /\ pre.regs[REG_OUT] = 0
    /\ \A t \in Callers : cur[t].on
    /\ \E t \in Callers : ~UpdatePresent(t)
    /\ regs[REG_OUT] \in {2, 128}

IsBusEvent(e) == e.ev \in {"cs", "xfer"}

\* the chip-select writes and exchanges of the current operation, in order,
\* without the chip-select write that opens begin()
Windows ==
    LET b == SelectSeq(log, IsBusEvent) IN
    IF cur[1].name = "begin" /\ b # <<>> THEN Tail(b) ELSE b

\* chip-select has been set high: begin() has made its first pin write or was
\* the previous operation, or chip-select was high when the operation was called
SelectSetHigh ==
    \/ cur[1].name = "begin" /\ log # <<>>
    \/ cur[1].name \notin {"none", "begin"} /\ (prev.op.name = "begin" \/ pre.cs = HIGH)

\* caller 1 is between the chip-select writes of spiTransfer16
InExchange == Running(1, "spiTransfer16") /\ Top(1).pc > 1

\* C21: once begin() has set chip-select high, chip-select is low only while
\* one exchange is in progress; the bus events of every operation are windows
\* of chip-select low, one 16-bit frame, chip-select high, so chip-select is
\* high between the frames of an operation and when the operation returns.
C21_ChipSelectDiscipline ==
    SelectSetHigh =>
        /\ cur[1].name = "begin" => log[1] = PinEvent("cs", HIGH)
        /\ \A i \in 1 .. Len(Windows) :
              Windows[i] =
                  CASE i % 3 = 1 -> PinEvent("cs", LOW)
                    [] i % 3 = 2 -> XferEvent(Windows[i].x, Windows[i].rx)
                    [] i % 3 = 0 -> PinEvent("cs", HIGH)
        /\ (cs = LOW) <=> InExchange
        /\ (cs = LOW) <=> (Len(Windows) % 3 # 0)
        /\ Idle => cs = HIGH

\* on a board that powered up with chip-select low, after begin(), chip-select
\* is low inside the fourth of the five exchanges of setChannel(1, true)
C21_Witness ==
    /\ w1c
    /\ prev.op.name = "begin"
    /\ cur[1] = Invocation("setChannel", 1, 0, TRUE)
    /\ cs = LOW
    /\ Len(Sent) = 4
    /\ Len(Windows) = 11

====
